---- MODULE Spec2Model ----
(***************************************************************************)
(* Model of portrait_patch.py: the migration of a Content Patcher package  *)
(* from PyTK portraits to HD Portraits.                                    *)
(*                                                                         *)
(* Representation.  A path is a record [dir, stem, ext] relative to the    *)
(* package root (content_patch_dir / p and p.relative_to(content_patch_dir)*)
(* are the two directions of that representation).  A Python dict is a     *)
(* record whose DOMAIN is its key set.  A file system is a function from   *)
(* paths to an optional content: <<>> for "no such file", <<data>> for a   *)
(* file holding data.  A Target string is held as its PurePath component   *)
(* sequence.  A JSON number that may be fractional (Scale) is held in      *)
(* halves.                                                                 *)
(***************************************************************************)
EXTENDS Integers, Sequences, FiniteSets, TLC

\* ---------------------------------------------------------------- bounds
MaxChanges == 3
MaxRuns == 2
MaxDeps == 3
MaxApply == 2

VARIABLES pkg, mirror, renames, nruns, last

vars == <<pkg, mirror, renames, nruns, last>>

\* ------------------------------------------------------------ path algebra
Path(d, s, e) == [dir |-> d, stem |-> s, ext |-> e]

with_suffix(p, e) == [p EXCEPT !.ext = e]

file_name(p) == <<p.stem, p.ext>>

\* a filter that takes every target inside any directory for a portrait
parent_name_any_directory(t) == IF Len(t) >= 2 THEN "Portraits" ELSE ""

\* PurePath(target).parent.name and PurePath(target).name on component sequences
parent_name(t) == IF Len(t) >= 2 THEN t[Len(t) - 1] ELSE ""

path_name(t) == IF Len(t) >= 1 THEN t[Len(t)] ELSE ""

\* directory / name
joinpath(d, n) == d \o <<n>>

\* file.relative_to(content_patch_dir): package paths are held relative to the root
relative_to(p) == p

is_file(files, p) == p \in DOMAIN files /\ Len(files[p]) > 0

read(files, p) == files[p][1]

get(d, k, default) == IF k \in DOMAIN d THEN d[k] ELSE default

\* ---------------------------------------------------------- the universe
Stems == {"Abigail", "Sam"}

TemplateStems == {"{{season}}"}

Exts == {".png", ".json", ".pytk.json"}

ContentJson == Path("", "content", ".json")

ManifestJson == Path("", "manifest", ".json")

Paths ==
  {Path("", s, e) : s \in {"content", "manifest"}, e \in {".json", ".bak"}}
    \cup {Path("assets", s, e) : s \in Stems, e \in Exts}

hd_portraits == <<"Mods", "HDPortraits">>

hd_portraits_patch == <<"Mods", "HDPortraitsPatch">>

NoneDir == "None"

OutDir == "Patched HD Portraits"

PYTK_DEPENDENCY == [UniqueID |-> "Platonymous.Toolkit"]

HD_PORTRAITS_DEPENDENCY == [UniqueID |-> "tlitookilakin.HDPortraits"]

STARDEW_PORTRAIT_SIZE == 64

\* re.compile(r"\{\{(.*)\}\}").search(portrait_file.name)
content_patcher_token_search(p) == p.stem \in TemplateStems

\* portrait_file.parent.glob("*.png"), as a set; the iteration order is an input
glob_png(files, p) ==
  {q \in DOMAIN files : q.dir = p.dir /\ q.ext = ".png" /\ Len(files[q]) > 0}

RECURSIVE Perms(_)
Perms(S) ==
  IF S = {} THEN {<<>>}
  ELSE UNION {{<<x>> \o r : r \in Perms(S \ {x})} : x \in S}

Min(a, b) == IF a < b THEN a ELSE b

\* int(x) of a number held in halves: truncation toward zero
int_halves(h) == IF h >= 0 THEN h \div 2 ELSE -((-h) \div 2)

\* ------------------------------------------------------------ the helpers
_get_file_or_backup(files, file) ==
  LET backup_file == with_suffix(file, ".bak")
  IN IF is_file(files, backup_file) THEN backup_file ELSE file

\* shutil.copytree with every file ignored: the directories, no files
_clone_dir_tree(fs) == [fs EXCEPT !.mdirs = TRUE]

\* pathlib.Path.rename (POSIX): FileNotFoundError when the source is missing
rename(fs, src, dst) ==
  IF ~is_file(fs.files, src) THEN [fs EXCEPT !.raised = TRUE]
  ELSE [fs EXCEPT !.files = [q \in DOMAIN fs.files |->
                               IF q = dst THEN fs.files[src]
                               ELSE IF q = src THEN <<>>
                               ELSE fs.files[q]],
                  !.renames[dst] = @ + 1]

\* a guard that forgets to look for an existing backup
needs_backup_unchecked(force_rewrite, copy_dir, backup_exists) ==
  ~(force_rewrite \/ copy_dir # NoneDir)

\* the guard of line 74
needs_backup(force_rewrite, copy_dir, backup_exists) ==
  ~(force_rewrite \/ copy_dir # NoneDir \/ backup_exists)

_rewrite(fs, file, json_data, copy_dir, force_rewrite) ==
  LET backup_file == with_suffix(file, ".bak")
      fs1 == IF needs_backup(force_rewrite, copy_dir, is_file(fs.files, backup_file))
             THEN rename(fs, file, backup_file)
             ELSE fs
  IN IF fs1.raised THEN fs1
     ELSE IF copy_dir = NoneDir
          THEN [fs1 EXCEPT !.files[file] = <<json_data>>]
          ELSE IF fs1.mdirs
               THEN [fs1 EXCEPT !.mfiles[relative_to(file)] = <<json_data>>]
               ELSE [fs1 EXCEPT !.raised = TRUE]

RECURSIVE list_remove(_, _)
\* list.remove(x): drops the first element equal to x; the list is unchanged if none
list_remove(s, x) ==
  IF s = <<>> THEN <<>>
  ELSE IF Head(s) = x THEN Tail(s)
  ELSE <<Head(s)>> \o list_remove(Tail(s), x)

\* a rewriter that appends the successor record only when it is not there yet
remove_pytk_dependency_once(files, manifest_file) ==
  LET manifest_dict == read(files, manifest_file)
      dependencies == get(manifest_dict, "Dependencies", <<>>)
      appended == IF \E k \in 1..Len(dependencies) :
                        dependencies[k] = HD_PORTRAITS_DEPENDENCY
                  THEN dependencies
                  ELSE Append(dependencies, HD_PORTRAITS_DEPENDENCY)
      removed == list_remove(appended, PYTK_DEPENDENCY)
  IN [k \in DOMAIN manifest_dict \cup {"Dependencies"} |->
        IF k = "Dependencies" THEN removed ELSE manifest_dict[k]]

\* defaultdict(list, json5.load(manifest)): a missing Dependencies key reads as []
remove_pytk_dependency(files, manifest_file) ==
  LET manifest_dict == read(files, manifest_file)
      dependencies == get(manifest_dict, "Dependencies", <<>>)
      appended == Append(dependencies, HD_PORTRAITS_DEPENDENCY)
      removed == list_remove(appended, PYTK_DEPENDENCY)
  IN [k \in DOMAIN manifest_dict \cup {"Dependencies"} |->
        IF k = "Dependencies" THEN removed ELSE manifest_dict[k]]

\* a derivation that scales before it truncates: int(Scale * 64)
create_metadata_json_scaled_first(files, metadata_file, target_name) ==
  LET pytk_file == with_suffix(metadata_file, ".pytk.json")
  IN IF ~is_file(files, pytk_file) THEN <<>>
     ELSE LET pytk_dict == read(files, pytk_file)
              sprite_size == int_halves(pytk_dict.Scale * STARDEW_PORTRAIT_SIZE)
          IN <<[Size |-> sprite_size, Portrait |-> target_name]>>

\* None is <<>>, a returned dict d is <<d>>; the Animation derivation of lines
\* 114-124 is commented out in the source and so is no part of the result
create_metadata_json(files, metadata_file, target_name) ==
  LET pytk_file == with_suffix(metadata_file, ".pytk.json")
  IN IF ~is_file(files, pytk_file) THEN <<>>
     ELSE LET pytk_dict == read(files, pytk_file)
              sprite_size == int_halves(pytk_dict.Scale) * STARDEW_PORTRAIT_SIZE
          IN <<[Size |-> sprite_size, Portrait |-> target_name]>>

\* ------------------------------------------------- content_patcher_portraits
PngNames == {<<s, ".png">> : s \in Stems \cup TemplateStems}

\* for globbed_portrait_file in portrait_file.parent.glob("*.png"), from the k-th on
RECURSIVE glob_loop(_, _, _, _, _)
glob_loop(st, order, k, target_name, copy_dir) ==
  IF k > Len(order) \/ st.fs.raised THEN st
  ELSE LET globbed_portrait_file == order[k]
           name == file_name(globbed_portrait_file)
           globbed_metadata_file == with_suffix(globbed_portrait_file, ".json")
           globbed_metadata_json ==
             create_metadata_json(st.fs.files, globbed_metadata_file, target_name)
           st1 == [st EXCEPT !.parsed[name] = "GLOBBED",
                             !.calls = Append(@, [file |-> globbed_metadata_file,
                                                  via |-> "GLOBBED"])]
       IN IF st.parsed[name] # "NONE"
          THEN glob_loop(st, order, k + 1, target_name, copy_dir)
          ELSE IF Len(globbed_metadata_json) = 0
          THEN glob_loop(st1, order, k + 1, target_name, copy_dir)
          ELSE glob_loop([st1 EXCEPT !.fs = _rewrite(@, globbed_metadata_file,
                                                     globbed_metadata_json[1],
                                                     copy_dir, TRUE)],
                         order, k + 1, target_name, copy_dir)

\* a literal branch that never looks at the processed-file set
already_individual_never(parsed, name) == FALSE

\* parsed_files.get(portrait_file.name) is FileParsed.INDIVIDUAL
already_individual(parsed, name) == parsed[name] = "INDIVIDUAL"

\* content_dict["Changes"].insert(2 * index, portrait_item): the position list.insert uses
insert_position(index, length) == Min(2 * index, length)

\* lines 206-220: the entry object becomes the legacy entry where it now sits in the
\* working list, and its deep copy, the successor entry, is inserted
emit_pair(st, index, metadata_item, portrait_file, metadata_file) ==
  LET hd_portraits_target_path == joinpath(hd_portraits, path_name(metadata_item.Target))
      hd_portraits_patch_target_path ==
        joinpath(hd_portraits_patch, path_name(metadata_item.Target))
      portrait_item == [metadata_item EXCEPT !.Action = "Load",
                                             !.Target = hd_portraits_patch_target_path,
                                             !.FromFile = relative_to(portrait_file)]
      legacy_item == [metadata_item EXCEPT !.Action = "Load",
                                           !.Target = hd_portraits_target_path,
                                           !.FromFile = relative_to(metadata_file)]
      pos == st.where[index + 1]
      changes1 == [st.changes EXCEPT ![pos] = legacy_item]
      at == insert_position(index, Len(changes1))
  IN [st EXCEPT !.changes = SubSeq(changes1, 1, at) \o <<portrait_item>>
                              \o SubSeq(changes1, at + 1, Len(changes1)),
                !.where = [k \in DOMAIN st.where |->
                             IF st.where[k] > at THEN st.where[k] + 1 ELSE st.where[k]]]

\* one iteration of the for loop of line 153; index is the Python (0-based) index and
\* st.where[index + 1] is where the index-th object of the copy sits in the working list
loop_body(st, index, order, copy_dir) ==
  LET metadata_item == st.changes[st.where[index + 1]]
      portrait_name == metadata_item.Target
      portrait_file == metadata_item.FromFile
      metadata_file == with_suffix(portrait_file, ".json")
      hd_portraits_patch_target_path == joinpath(hd_portraits_patch, path_name(portrait_name))
      name == file_name(portrait_file)
      st1 == [st EXCEPT !.parsed[name] = "INDIVIDUAL",
                        !.calls = Append(@, [file |-> metadata_file, via |-> "INDIVIDUAL"])]
      metadata_json ==
        create_metadata_json(st.fs.files, metadata_file, hd_portraits_patch_target_path)
  IN IF parent_name(portrait_name) # "Portraits" THEN st
     ELSE IF content_patcher_token_search(portrait_file)
     THEN emit_pair(glob_loop(st,
                              SelectSeq(order,
                                        LAMBDA q : q \in glob_png(st.fs.files, portrait_file)),
                              1, hd_portraits_patch_target_path, copy_dir),
                    index, metadata_item, portrait_file, metadata_file)
     ELSE IF is_file(st.fs.files, portrait_file)
     THEN IF already_individual(st.parsed, name) THEN st
          ELSE IF Len(metadata_json) = 0 THEN st1
          ELSE emit_pair([st1 EXCEPT !.fs = _rewrite(@, metadata_file, metadata_json[1],
                                                     copy_dir, TRUE)],
                         index, metadata_item, portrait_file, metadata_file)
     ELSE emit_pair(st, index, metadata_item, portrait_file, metadata_file)

\* for index, metadata_item in enumerate(content_dict["Changes"].copy())
RECURSIVE for_each_change(_, _, _, _, _)
for_each_change(st, index, length, order, copy_dir) ==
  IF index >= length \/ st.fs.raised THEN st
  ELSE for_each_change(loop_body(st, index, order, copy_dir),
                       index + 1, length, order, copy_dir)

\* the whole handler; the result holds the file system after the run and what the run
\* read, produced and called
content_patcher_portraits(fs0, copy_dir, order) ==
  LET fs1 == IF copy_dir # NoneDir THEN _clone_dir_tree(fs0) ELSE fs0
      content_file == _get_file_or_backup(fs1.files, ContentJson)
      content_dict == read(fs1.files, content_file)
      st0 == [fs |-> fs1,
              changes |-> content_dict.Changes,
              where |-> [k \in 1..Len(content_dict.Changes) |-> k],
              parsed |-> [n \in PngNames |-> "NONE"],
              calls |-> <<>>]
      st == for_each_change(st0, 0, Len(content_dict.Changes), order, copy_dir)
      fs2 == _rewrite(st.fs, content_file,
                      [content_dict EXCEPT !.Changes = st.changes], copy_dir, FALSE)
      manifest_file == _get_file_or_backup(fs2.files, ManifestJson)
      fs3 == IF fs2.raised \/ ~is_file(fs2.files, manifest_file)
             THEN [fs2 EXCEPT !.raised = TRUE]
             ELSE _rewrite(fs2, manifest_file,
                           remove_pytk_dependency(fs2.files, manifest_file),
                           copy_dir, FALSE)
  IN IF ~is_file(fs1.files, content_file)
     THEN [fs |-> [fs1 EXCEPT !.raised = TRUE], content_file |-> content_file,
           manifest_file |-> ManifestJson, changesIn |-> <<>>, changesOut |-> <<>>,
           calls |-> <<>>]
     ELSE [fs |-> fs3, content_file |-> content_file, manifest_file |-> manifest_file,
           changesIn |-> content_dict.Changes, changesOut |-> st.changes,
           calls |-> st.calls]

\* ------------------------------------------------------------- the packages
Entry(a, t, f) == [Action |-> a, Target |-> t, FromFile |-> f]

\* the change entries a content.json is drawn from: a literal portrait, a second literal
\* portrait with another action, a templated portrait and an entry outside Portraits
EntryPool ==
  { Entry("Load", <<"Portraits", "Abigail">>, Path("assets", "Abigail", ".png")),
    Entry("EditImage", <<"Portraits", "Sam">>, Path("assets", "Sam", ".png")),
    Entry("Load", <<"Portraits", "Abigail">>, Path("assets", "{{season}}", ".png")),
    Entry("EditImage", <<"Characters", "Abigail">>, Path("assets", "Abigail", ".png")) }

SeqsUpTo(S, n) == UNION {[1..k -> S] : k \in 0..n}

PngData == [kind |-> "png"]

PytkData == [Scale |-> 4]

\* a hand-written .json that is already beside an image before any run
OldMetaData == [Size |-> 64, Portrait |-> <<"old">>]

\* what is beside one image: nothing at all, the image alone, the image with its
\* legacy descriptor, the image with an older .json and no legacy descriptor
AssetKinds == {"absent", "png", "png+pytk", "png+json"}

asset_file(kind, ext) ==
  IF kind = "absent" THEN <<>>
  ELSE IF ext = ".png" THEN <<PngData>>
  ELSE IF ext = ".pytk.json" /\ kind = "png+pytk" THEN <<PytkData>>
  ELSE IF ext = ".json" /\ kind = "png+json" THEN <<OldMetaData>>
  ELSE <<>>

ManifestPool ==
  { [Name |-> "mod"],
    [Name |-> "mod", Dependencies |-> <<PYTK_DEPENDENCY>>] }

package(changes, manifest_dict, kinds) ==
  [p \in Paths |->
     IF p = ContentJson THEN <<[Format |-> "1.19", Changes |-> changes]>>
     ELSE IF p = ManifestJson THEN <<manifest_dict>>
     ELSE IF p.dir = "assets" /\ p.stem \in Stems THEN asset_file(kinds[p.stem], p.ext)
     ELSE <<>>]

EmptyTree == [p \in Paths |-> <<>>]

NoRun ==
  [mode |-> "init", raised |-> FALSE, content_file |-> ContentJson,
   manifest_file |-> ManifestJson, changesIn |-> <<>>, changesOut |-> <<>>,
   calls |-> <<>>]

Init ==
  /\ \E changes \in SeqsUpTo(EntryPool, MaxChanges), m \in ManifestPool,
        kinds \in [Stems -> AssetKinds] :
       pkg = package(changes, m, kinds)
  /\ mirror = [dirs |-> FALSE, files |-> EmptyTree]
  /\ renames = [p \in Paths |-> 0]
  /\ nruns = 0
  /\ last = NoRun

\* the package, the output tree and the rename log as the handler sees them
FileSystem ==
  [files |-> pkg, mfiles |-> mirror.files, mdirs |-> mirror.dirs,
   renames |-> renames, raised |-> FALSE]

\* the state a run r of content_patcher_portraits leaves behind
Completed(r, copy_dir) ==
  /\ pkg' = r.fs.files
  /\ mirror' = [dirs |-> r.fs.mdirs, files |-> r.fs.mfiles]
  /\ renames' = r.fs.renames
  /\ nruns' = nruns + 1
  /\ last' = [mode |-> copy_dir, raised |-> r.fs.raised,
              content_file |-> r.content_file,
              manifest_file |-> r.manifest_file,
              changesIn |-> r.changesIn, changesOut |-> r.changesOut,
              calls |-> r.calls]

\* main() on a [CP] folder with --mode internal: one whole run of
\* content_patcher_portraits with copy_dir None, for some glob order
RunInPlace ==
  /\ nruns < MaxRuns
  /\ \E order \in Perms({q \in Paths : q.ext = ".png" /\ is_file(pkg, q)}) :
       \E r \in {content_patcher_portraits(FileSystem, NoneDir, order)} :
         Completed(r, NoneDir)

\* main() on a [CP] folder with --mode copy: one whole run with copy_dir set
RunMirrored ==
  /\ nruns < MaxRuns
  /\ \E order \in Perms({q \in Paths : q.ext = ".png" /\ is_file(pkg, q)}) :
       \E r \in {content_patcher_portraits(FileSystem, OutDir, order)} :
         Completed(r, OutDir)

Next == RunInPlace \/ RunMirrored

Spec == Init /\ [][Next]_vars

\* ------------------------------------------------- vocabulary of the properties
Ran == last.mode # "init"

InPlaceStep == nruns' = nruns + 1 /\ last'.mode = NoneDir

MirroredStep == nruns' = nruns + 1 /\ last'.mode = OutDir

ContentBak == Path("", "content", ".bak")

ManifestBak == Path("", "manifest", ".bak")

IsPortraitEntry(e) ==
  Len(e.Target) >= 2 /\ e.Target[Len(e.Target) - 1] = "Portraits"

AssetName(e) == e.Target[Len(e.Target)]

LegacyOf(e) ==
  [e EXCEPT !.Action = "Load",
            !.Target = <<"Mods", "HDPortraits", AssetName(e)>>,
            !.FromFile = [e.FromFile EXCEPT !.ext = ".json"]]

SuccessorOf(e) ==
  [e EXCEPT !.Action = "Load",
            !.Target = <<"Mods", "HDPortraitsPatch", AssetName(e)>>]

Count(s, x) == Cardinality({k \in 1..Len(s) : s[k] = x})

Occurs(s, x) == \E k \in 1..Len(s) : s[k] = x

IsTemplated(e) == e.FromFile.stem \in TemplateStems

\* C1: every entry of the change list read whose Target is under Portraits is
\* replaced in the rewritten list by exactly two entries, its legacy entry
\* (Load, Mods/HDPortraits/<name>, the .json path) and its successor entry
\* (Load, Mods/HDPortraitsPatch/<name>, the image path).
C1_EveryPortraitEntryBecomesAPair ==
  (Ran /\ ~last.raised) =>
    /\ Len(last.changesOut) =
         Len(last.changesIn)
           + Cardinality({k \in 1..Len(last.changesIn) : IsPortraitEntry(last.changesIn[k])})
    /\ \A k \in 1..Len(last.changesIn) :
         LET e == last.changesIn[k]
         IN IsPortraitEntry(e) =>
              /\ Count(last.changesOut, LegacyOf(e)) = Count(last.changesIn, e)
              /\ Count(last.changesOut, SuccessorOf(e)) = Count(last.changesIn, e)
              /\ ~Occurs(last.changesOut, e)

\* C2: in the rewritten list the successor entry of every migrated entry sits
\* immediately before that entry's legacy entry.
C2_SuccessorImmediatelyBeforeLegacy ==
  (Ran /\ ~last.raised) =>
    \A k \in 1..Len(last.changesIn) :
      LET e == last.changesIn[k]
      IN IsPortraitEntry(e) =>
           \A j \in 1..Len(last.changesOut) :
             last.changesOut[j] = LegacyOf(e) =>
               j > 1 /\ last.changesOut[j - 1] = SuccessorOf(e)

\* C3: a run over an entry whose resolved asset has no .pytk.json does not fail,
\* leaves that asset's .json as it was (in the package and in the mirror), and still
\* replaces the entry by its legacy/successor pair, for a literal as for a templated
\* FromFile.
C3_MissingDescriptorIsASoftSkip ==
  [][(nruns' = nruns + 1) =>
       \A k \in 1..Len(last'.changesIn) :
         LET e == last'.changesIn[k]
             assets == IF IsTemplated(e)
                       THEN {q \in Paths : q.dir = e.FromFile.dir /\ q.ext = ".png"
                                            /\ Len(pkg[q]) > 0}
                       ELSE {q \in Paths : q = e.FromFile /\ Len(pkg[q]) > 0}
             bare == {q \in assets : Len(pkg[[q EXCEPT !.ext = ".pytk.json"]]) = 0}
         IN (IsPortraitEntry(e) /\ bare # {}) =>
              /\ ~last'.raised
              /\ \A q \in bare :
                   /\ pkg'[[q EXCEPT !.ext = ".json"]] = pkg[[q EXCEPT !.ext = ".json"]]
                   /\ mirror'.files[[q EXCEPT !.ext = ".json"]]
                        = mirror.files[[q EXCEPT !.ext = ".json"]]
              /\ Occurs(last'.changesOut, LegacyOf(e))
              /\ Occurs(last'.changesOut, SuccessorOf(e))]_vars

C5_BackupStaysPristine ==
  [][InPlaceStep =>
       /\ Len(pkg[ContentBak]) > 0 => pkg'[ContentBak] = pkg[ContentBak]
       /\ Len(pkg[ManifestBak]) > 0 => pkg'[ManifestBak] = pkg[ManifestBak]
       /\ last'.content_file = ContentJson
       /\ last'.manifest_file = ManifestJson]_vars

\* C6: no run raises, and over any sequence of runs each of content.json and
\* manifest.json is renamed to its .bak path at most once (no other rename happens).
C6_RerunMakesNoSecondBackup ==
  /\ ~last.raised
  /\ \A p \in Paths : renames[p] <= 1
  /\ \A p \in Paths \ {ContentBak, ManifestBak} : renames[p] = 0

\* an in-place run on a package that already had its backups and generated metadata
C6_Witness ==
  /\ nruns >= 2
  /\ last.mode = NoneDir
  /\ last.content_file = ContentBak
  /\ last.manifest_file = ManifestBak
  /\ renames[ContentBak] = 1
  /\ renames[ManifestBak] = 1
  /\ Len(pkg[Path("assets", "Abigail", ".json")]) > 0
  /\ Len(last.calls) > 0

\* C7: a mirrored run writes the rewritten change list to <copy_dir>/content.json,
\* the rewritten manifest to <copy_dir>/manifest.json and every generated metadata
\* file to its path under copy_dir, changes no file of the package, renames nothing
\* and creates no .bak file.
C7_MirroredRunWritesOnlyTheMirror ==
  [][MirroredStep =>
       /\ pkg' = pkg
       /\ renames' = renames
       /\ Len(mirror'.files[ContentJson]) > 0
       /\ mirror'.files[ContentJson][1].Changes = last'.changesOut
       /\ Len(mirror'.files[ManifestJson]) > 0
       /\ \A a \in 1..Len(last'.calls) :
            Len(pkg[[last'.calls[a].file EXCEPT !.ext = ".pytk.json"]]) > 0 =>
              Len(mirror'.files[last'.calls[a].file]) > 0
       /\ \A p \in Paths : p.ext = ".bak" => Len(mirror'.files[p]) = 0]_vars

\* C10: every entry outside Portraits is in the rewritten list with all its fields,
\* and the entries of the list read, each unchanged or rewritten in place to its
\* legacy entry, appear in the rewritten list in their original order; at most one
\* entry is inserted per portrait entry read.
RECURSIVE KeepsOrder(_, _)
KeepsOrder(in, out) ==
  IF in = <<>> THEN TRUE
  ELSE IF out = <<>> THEN FALSE
  ELSE IF \/ Head(out) = Head(in)
          \/ IsPortraitEntry(Head(in)) /\ Head(out) = LegacyOf(Head(in))
       THEN KeepsOrder(Tail(in), Tail(out))
       ELSE KeepsOrder(in, Tail(out))

C10_OtherEntriesUntouchedAndOrderKept ==
  (Ran /\ ~last.raised) =>
    /\ KeepsOrder(last.changesIn, last.changesOut)
    /\ \A k \in 1..Len(last.changesIn) :
         ~IsPortraitEntry(last.changesIn[k]) =>
           Count(last.changesOut, last.changesIn[k])
             >= Count(last.changesIn, last.changesIn[k])
    /\ Len(last.changesOut) - Len(last.changesIn)
         <= Cardinality({k \in 1..Len(last.changesIn) :
                           IsPortraitEntry(last.changesIn[k])})
    /\ \A j \in 1..Len(last.changesOut) :
         \/ Occurs(last.changesIn, last.changesOut[j])
         \/ \E k \in 1..Len(last.changesIn) :
              /\ IsPortraitEntry(last.changesIn[k])
              /\ last.changesOut[j] \in {LegacyOf(last.changesIn[k]),
                                         SuccessorOf(last.changesIn[k])}

\* a run over a list that mixes entries outside Portraits with migrated ones
C10_Witness ==
  /\ Ran
  /\ Len(last.changesOut) > Len(last.changesIn)
  /\ \E k \in 1..Len(last.changesIn) : ~IsPortraitEntry(last.changesIn[k])
  /\ \E k \in 1..Len(last.changesIn) :
       /\ IsPortraitEntry(last.changesIn[k])
       /\ Occurs(last.changesOut, LegacyOf(last.changesIn[k]))

\* --------------------------------------------- create_metadata_json on its own
ScaleHalves == {2, 3, 4, 5, 8}

AnimationPool ==
  {[FrameWidth |-> w, FrameHeight |-> h, FPS |-> f] :
      w \in {128, 256}, h \in {128, 256}, f \in {24, 30}}
    \cup {[FrameWidth |-> w, FrameHeight |-> h] : w \in {128, 256}, h \in {128, 256}}
    \cup {[FPS |-> f] : f \in {24, 30}}

PytkPool ==
  {[Scale |-> h] : h \in ScaleHalves}
    \cup {[Scale |-> h, Animation |-> a] : h \in ScaleHalves, a \in AnimationPool}

AbigailPng == Path("assets", "Abigail", ".png")

AbigailJson == Path("assets", "Abigail", ".json")

AbigailPytk == Path("assets", "Abigail", ".pytk.json")

InitMeta ==
  /\ \E d \in {<<>>} \cup {<<x>> : x \in PytkPool} :
       pkg = [p \in Paths |-> IF p = AbigailPng THEN <<PngData>>
                              ELSE IF p = AbigailPytk THEN d
                              ELSE <<>>]
  /\ mirror = [dirs |-> FALSE, files |-> EmptyTree]
  /\ renames = [p \in Paths |-> 0]
  /\ nruns = 0
  /\ last = [mode |-> "init", target_name |-> <<>>, asset_dict |-> <<>>]

\* the call of line 192: create_metadata_json(metadata_file, target)
DeriveMetadata ==
  /\ nruns = 0
  /\ \E s \in Stems :
       last' = [mode |-> "derived",
                target_name |-> joinpath(hd_portraits_patch, s),
                asset_dict |-> create_metadata_json(pkg, AbigailJson,
                                                    joinpath(hd_portraits_patch, s))]
  /\ nruns' = 1
  /\ UNCHANGED <<pkg, mirror, renames>>

NextMeta == DeriveMetadata

SpecMeta == InitMeta /\ [][NextMeta]_vars

DepPool ==
  { PYTK_DEPENDENCY,
    HD_PORTRAITS_DEPENDENCY,
    [UniqueID |-> "Pathoschild.ContentPatcher"],
    [UniqueID |-> "Platonymous.Toolkit", IsRequired |-> FALSE] }

ManifestDocs ==
  {[Name |-> "mod"]}
    \cup {[Name |-> "mod", Dependencies |-> d] : d \in SeqsUpTo(DepPool, MaxDeps)}

InitDeps ==
  /\ \E m \in ManifestDocs :
       /\ pkg = [p \in Paths |-> IF p = ManifestJson THEN <<m>> ELSE <<>>]
       /\ last = [mode |-> "init", first |-> m, in |-> m, out |-> m]
  /\ mirror = [dirs |-> FALSE, files |-> EmptyTree]
  /\ renames = [p \in Paths |-> 0]
  /\ nruns = 0

\* lines 229-237 on the manifest alone: the manifest is read, rewritten by
\* remove_pytk_dependency and written back
RewriteDependencies ==
  /\ nruns < MaxApply
  /\ \E m \in {remove_pytk_dependency(pkg, ManifestJson)} :
       /\ last' = [mode |-> "rewritten", first |-> last.first,
                   in |-> read(pkg, ManifestJson), out |-> m]
       /\ pkg' = [pkg EXCEPT ![ManifestJson] = <<m>>]
  /\ nruns' = nruns + 1
  /\ UNCHANGED <<mirror, renames>>

NextDeps == RewriteDependencies

SpecDeps == InitDeps /\ [][NextDeps]_vars

DepsOf(m) == IF "Dependencies" \in DOMAIN m THEN m.Dependencies ELSE <<>>

Without(s, x) == SelectSeq(s, LAMBDA y : y # x)

\* C9: the returned Dependencies list is the list read (empty when the key is
\* missing) with one legacy record {UniqueID: Platonymous.Toolkit} taken out if there
\* is one, and one successor record appended at the end; without a legacy record the
\* list read is kept as it is before the appended record; every other key of the
\* manifest is kept; and every application adds one more successor record, so two
\* applications leave two more than the manifest first had.
C9_LegacyRemovedSuccessorAppended ==
  last.mode = "rewritten" =>
    LET in == DepsOf(last.in)
        out == DepsOf(last.out)
        legacy == [UniqueID |-> "Platonymous.Toolkit"]
        successor == [UniqueID |-> "tlitookilakin.HDPortraits"]
    IN /\ "Dependencies" \in DOMAIN last.out
       /\ \A k \in DOMAIN last.in \ {"Dependencies"} :
            k \in DOMAIN last.out /\ last.out[k] = last.in[k]
       /\ Len(out) >= 1 /\ out[Len(out)] = successor
       /\ ~Occurs(in, legacy) => out = in \o <<successor>>
       /\ Occurs(in, legacy) =>
            /\ Len(out) = Len(in)
            /\ Count(out, legacy) = Count(in, legacy) - 1
            /\ Without(out, legacy) = Without(in, legacy) \o <<successor>>
       /\ Count(in, legacy) = 1 => ~Occurs(out, legacy)
       /\ Count(out, successor) = Count(in, successor) + 1
       /\ pkg[ManifestJson] = <<last.out>>
       /\ Count(DepsOf(pkg[ManifestJson][1]), successor)
            = Count(DepsOf(last.first), successor) + nruns

\* the rewriter has been applied twice to a manifest that had no legacy record and
\* no successor record: two successor records at the end
C9_Witness ==
  /\ last.mode = "rewritten"
  /\ nruns = 2
  /\ ~Occurs(DepsOf(last.first), [UniqueID |-> "Platonymous.Toolkit"])
  /\ Count(DepsOf(last.first), [UniqueID |-> "tlitookilakin.HDPortraits"]) = 0
  /\ Count(DepsOf(last.out), [UniqueID |-> "tlitookilakin.HDPortraits"]) = 2
  /\ DepsOf(last.out) = DepsOf(last.first)
       \o <<[UniqueID |-> "tlitookilakin.HDPortraits"],
            [UniqueID |-> "tlitookilakin.HDPortraits"]>>

====
